---- MODULE Spec2Model ----
(***************************************************************************)
(* connect-rs: the datagram codec (src/src/protocol.rs), the frame reader  *)
(* (src/src/reader.rs) and the frame writer (src/src/writer.rs).           *)
(*                                                                         *)
(* Bytes are integers 0..255 and buffers are sequences of bytes.  An       *)
(* Option<T> is a sequence of length 0 (None) or 1 (Some(x)).              *)
(*                                                                         *)
(* ConnectionReader::poll_next is a loop around one transport read; each   *)
(* loop iteration is one action, and rpc tells whether a call is underway. *)
(***************************************************************************)
EXTENDS Integers, Sequences, FiniteSets, TLC

VARIABLES
    \* ---- ConnectionReader (reader.rs:34-42)
    buffer,            \* Option<BytesMut> scratch buffer: TRUE when Some
    pending_read,      \* Option<BytesMut>
    pending_datagram,  \* Option<usize>
    rclosed,           \* ConnectionReader.closed
    rpc,               \* "idle": no call underway; "loop": inside poll_next's loop
    rlast,             \* what the last loop iteration did and what poll_next returned
    panicked,          \* "" or the panic that aborted poll_next
    \* ---- reader-side history
    yielded,           \* datagrams returned by poll_next so far (their buffers)
    consumed,          \* bytes returned so far by the underlying reads
    closedAt,          \* Len(yielded) when end-of-sequence was first returned, else -1
    \* ---- the byte stream
    wire,              \* bytes in flight towards the reader
    sent,              \* the datagrams whose frames the peer put on the wire
    \* ---- ConnectionWriter (writer.rs:29-35)
    pending_writes,    \* Vec<Vec<u8>>
    wclosed,           \* ConnectionWriter.closed
    \* ---- writer-side history
    submitted,         \* frames pushed by start_send, in call order
    handed,            \* frames passed to poll_write_vectored, in call order
    stream_closed,     \* the transport's poll_close has completed
    wlast,             \* the last writer call: its inputs, its queue before, its result
    \* ---- ConnectDatagram (protocol.rs:51-53)
    dgram,             \* ConnectDatagram.buffer of the datagram the codec calls act on
    clast,             \* the last codec call: its arguments, the buffer before, its result
    \* ---- TcpListener / TlsListener (tcp/listener.rs:31-36, tls/listener.rs:33-47)
    listener,          \* conn_stream, the task that polls it and its registered waker
    \* ---- Connection (lib.rs:88-91)
    conn               \* the Connections the program holds: each a reader and a writer

rvars == <<buffer, pending_read, pending_datagram, rclosed, rpc, rlast, panicked,
           yielded, consumed, closedAt>>
wvars == <<pending_writes, wclosed, submitted, handed, stream_closed, wlast>>
cvars == <<dgram, clast>>
nvars == <<listener, conn>>
vars == <<rvars, wvars, wire, sent, cvars, nvars>>

-----------------------------------------------------------------------------
\* Bounds of the model.
MaxPayloadLen == 2
MaxDatagrams == 2
MaxSend == 2
MaxAccepts == 3
MaxConns == 2

\* Program constants.
VERSION == 1
SIZE_PREFIX_BYTE_SIZE == 4
VERSION_BYTE_SIZE == 2
TAG_BYTE_SIZE == 2
DATAGRAM_HEADER_BYTE_SIZE == SIZE_PREFIX_BYTE_SIZE + VERSION_BYTE_SIZE + TAG_BYTE_SIZE
MAX_DATA_SIZE == 100000000
BUFFER_SIZE == 8192

None == <<>>
Some(x) == <<x>>

-----------------------------------------------------------------------------
\* Buffers.
Take(s, n) == SubSeq(s, 1, n)
Drop(s, n) == SubSeq(s, n + 1, Len(s))

RECURSIVE Concat(_)
Concat(ss) == IF ss = <<>> THEN <<>> ELSE Head(ss) \o Concat(Tail(ss))

IsPrefix(s, t) == Len(s) <= Len(t) /\ Take(t, Len(s)) = s

SeqsUpTo(S, n) == UNION {[1..k -> S] : k \in 0..n}

\* u32::to_be_bytes, u16::to_be_bytes and their inverses.  Every length and
\* size of the model is below 2^31, so `as u32` never wraps here.
U32BE(n) == <<n \div 16777216, (n \div 65536) % 256, (n \div 256) % 256, n % 256>>
U16BE(n) ==
    LET m == n % 65536
    IN  <<m \div 256, m % 256>>
FromU32BE(b) == b[1] * 16777216 + b[2] * 65536 + b[3] * 256 + b[4]
FromU16BE(b) == b[1] * 256 + b[2]

-----------------------------------------------------------------------------
\* ConnectDatagram (protocol.rs): a datagram is its buffer.
Ok(b) == [ok |-> TRUE, buffer |-> b]
Err(e) == [ok |-> FALSE, err |-> e]

\* with_tag_check as it would be if the largest length were refused too.
with_tag_check_RefusesMax(len) ==
    IF len >= MAX_DATA_SIZE THEN "TooLargeMessage"
    ELSE IF len > 0 THEN "Ok"
    ELSE "EmptyMessage"

\* The branch with_tag takes for a payload of `len` bytes (protocol.rs:78, 80,
\* 92): the tests read data.len() only.
with_tag_check(len) ==
    IF len > MAX_DATA_SIZE THEN "TooLargeMessage"
    ELSE IF len > 0 THEN "Ok"
    ELSE "EmptyMessage"

\* with_tag as it would be if the tag were written before the version.
with_tag_TagFirst(tag, data) ==
    IF with_tag_check(Len(data)) = "Ok"
    THEN Ok(U32BE(DATAGRAM_HEADER_BYTE_SIZE - SIZE_PREFIX_BYTE_SIZE + Len(data))
            \o U16BE(tag) \o U16BE(VERSION) \o data)
    ELSE Err(with_tag_check(Len(data)))

\* with_tag, protocol.rs:77-95.
with_tag(tag, data) ==
    IF with_tag_check(Len(data)) = "Ok"
    THEN Ok(U32BE(DATAGRAM_HEADER_BYTE_SIZE - SIZE_PREFIX_BYTE_SIZE + Len(data))
            \o U16BE(VERSION) \o U16BE(tag) \o data)
    ELSE Err(with_tag_check(Len(data)))

version(d) ==
    FromU16BE(SubSeq(d, SIZE_PREFIX_BYTE_SIZE + 1, SIZE_PREFIX_BYTE_SIZE + VERSION_BYTE_SIZE))
tag(d) ==
    FromU16BE(SubSeq(d, SIZE_PREFIX_BYTE_SIZE + VERSION_BYTE_SIZE + 1,
                     SIZE_PREFIX_BYTE_SIZE + VERSION_BYTE_SIZE + TAG_BYTE_SIZE))
data(d) == Drop(d, DATAGRAM_HEADER_BYTE_SIZE)
as_bytes(d) == d

serialized_size(d) == Len(d)
data_size(d) == Len(d) - DATAGRAM_HEADER_BYTE_SIZE
into_bytes(d) == d

\* Vec::truncate(len): no effect when len is not below the current length.
Truncate(b, len) == IF len < Len(b) THEN Take(b, len) ELSE b

\* Vec::splice(from.., with): the bytes from index `from` (0-based) on are
\* removed and returned, and `with` takes their place.
SpliceFrom(b, from, with) == [buffer |-> Take(b, from) \o with, removed |-> Drop(b, from)]

\* Vec::splice(..to, with) and Vec::splice(from..to, with), result in place.
SpliceTo(b, to, with) == with \o Drop(b, to)
SpliceRange(b, from, to, with) == Take(b, from) \o with \o Drop(b, to)

\* update_size_prefix, protocol.rs:100-106: the argument self.data_size() is
\* evaluated before the splice, and the splice replaces the range
\* ..VERSION_BYTE_SIZE.
update_size_prefix(d) ==
    SpliceTo(d, VERSION_BYTE_SIZE,
             U32BE(DATAGRAM_HEADER_BYTE_SIZE - SIZE_PREFIX_BYTE_SIZE + data_size(d)))

\* set_tag as it would be if it wrote the tag over the version field.
set_tag_AtVersion(d, t) ==
    SpliceRange(d, SIZE_PREFIX_BYTE_SIZE, SIZE_PREFIX_BYTE_SIZE + VERSION_BYTE_SIZE, U16BE(t))

\* set_tag, protocol.rs:138-143.
set_tag(d, t) ==
    SpliceRange(d, SIZE_PREFIX_BYTE_SIZE + VERSION_BYTE_SIZE,
                SIZE_PREFIX_BYTE_SIZE + VERSION_BYTE_SIZE + TAG_BYTE_SIZE, U16BE(t))

\* The branch set_data takes for a payload of `len` bytes (protocol.rs:154-158,
\* 171-172).
set_data_check(len) ==
    IF len > MAX_DATA_SIZE THEN "TooLargeMessage"
    ELSE IF len > 0 THEN "Ok"
    ELSE "EmptyMessage"

\* set_data_n as it would be if the buffer were truncated before the length of
\* the new payload is tested.
set_data_n_TruncatesFirst(d, n, new) ==
    LET b1 == IF n < Len(d) THEN Truncate(d, DATAGRAM_HEADER_BYTE_SIZE + n) ELSE d
        sp == SpliceFrom(b1, DATAGRAM_HEADER_BYTE_SIZE, new)
    IN  IF set_data_check(n) = "Ok"
        THEN [ok |-> TRUE, buffer |-> update_size_prefix(sp.buffer), old |-> sp.removed]
        ELSE [ok |-> FALSE, buffer |-> b1, err |-> set_data_check(n)]

\* set_data, protocol.rs:153-174, for a payload `new` of n bytes: the buffer
\* afterwards and the returned old data, or the error.  A payload that is
\* refused is not read, so one too long for the model is known by n alone.
set_data_n(d, n, new) ==
    IF set_data_check(n) = "Ok"
    THEN LET b1 == IF n < Len(d) THEN Truncate(d, DATAGRAM_HEADER_BYTE_SIZE + n) ELSE d
             sp == SpliceFrom(b1, DATAGRAM_HEADER_BYTE_SIZE, new)
         IN  [ok |-> TRUE, buffer |-> update_size_prefix(sp.buffer), old |-> sp.removed]
    ELSE [ok |-> FALSE, buffer |-> d, err |-> set_data_check(n)]

set_data(d, new) == set_data_n(d, Len(new), new)

\* from_bytes, protocol.rs:206-214.
from_bytes(b) ==
    IF Len(b) > DATAGRAM_HEADER_BYTE_SIZE THEN Ok(b) ELSE Err("InsufficientBytes")

\* from_bytes_without_prefix as it would be if the inferred size prefix counted
\* the prefix itself.
from_bytes_without_prefix_CountsPrefix(b) ==
    IF Len(b) > DATAGRAM_HEADER_BYTE_SIZE - SIZE_PREFIX_BYTE_SIZE
    THEN Ok(U32BE(SIZE_PREFIX_BYTE_SIZE + Len(b)) \o b)
    ELSE Err("InsufficientBytes")

\* The branch from_bytes_without_prefix takes for a buffer of `len` bytes
\* (protocol.rs:219, 225): it tests buffer.len() against the header size only.
from_bytes_without_prefix_check(len) ==
    IF len > DATAGRAM_HEADER_BYTE_SIZE - SIZE_PREFIX_BYTE_SIZE THEN "Ok"
    ELSE "InsufficientBytes"

\* from_bytes_without_prefix, protocol.rs:218-228.
from_bytes_without_prefix(b) ==
    IF from_bytes_without_prefix_check(Len(b)) = "Ok"
    THEN Ok(U32BE(Len(b)) \o b)
    ELSE Err(from_bytes_without_prefix_check(Len(b)))

-----------------------------------------------------------------------------
\* Listeners and connection endpoints.

\* No listener is bound and no Connection is held (the reader, writer and codec
\* specifications).
NetIdle ==
    /\ listener = [kind |-> "", incoming |-> <<>>, task |-> "", waker |-> FALSE,
                   yielded |-> 0, arrived |-> 0, ret |-> ""]
    /\ conn = <<>>

-----------------------------------------------------------------------------
\* The codec calls made on one ConnectDatagram.

\* `len` is the length of the payload passed, `data` the payload.
CLast(op, t, len, d, before, ok, out) ==
    [op |-> op, tag |-> t, len |-> len, data |-> d, before |-> before, ok |-> ok,
     out |-> out]

\* No datagram is under construction (the reader and writer specifications).
CodecIdle == dgram = <<>> /\ clast = CLast("", 0, 0, <<>>, <<>>, TRUE, <<>>)

\* datagram = ConnectDatagram::with_tag(t, payload) for a payload of n bytes.  A
\* payload the model holds is passed as `payload` (n = Len(payload)); a longer one is
\* known by its length alone: the branch taken is recorded and the datagram
\* built is not kept.  `out` is the error, if any.
WithTag(t, n, payload) ==
    LET c == with_tag_check(n)
    IN  /\ dgram' = IF n = Len(payload) /\ with_tag(t, payload).ok
                     THEN with_tag(t, payload).buffer
                     ELSE dgram
        /\ clast' = CLast("with_tag", t, n, payload, <<>>, c = "Ok",
                          IF c = "Ok" THEN <<>> ELSE c)
        /\ UNCHANGED <<rvars, wvars, wire, sent, nvars>>

\* datagram.set_tag(t).
SetTag(t) ==
    /\ dgram' = set_tag(dgram, t)
    /\ clast' = CLast("set_tag", t, 0, <<>>, dgram, TRUE, <<>>)
    /\ UNCHANGED <<rvars, wvars, wire, sent, nvars>>

\* datagram.set_data(new): `out` is the data returned, or the error.
SetData(new) ==
    LET r == set_data(dgram, new)
    IN  /\ dgram' = r.buffer
        /\ clast' = CLast("set_data", 0, Len(new), new, dgram, r.ok,
                          IF r.ok THEN r.old ELSE r.err)
        /\ UNCHANGED <<rvars, wvars, wire, sent, nvars>>

\* datagram.set_data(new) for a payload of n > MAX_DATA_SIZE bytes.
SetDataTooLong(n) ==
    LET r == set_data_n(dgram, n, <<>>)
    IN  /\ n > MAX_DATA_SIZE
        /\ dgram' = r.buffer
        /\ clast' = CLast("set_data", 0, n, <<>>, dgram, r.ok,
                          IF r.ok THEN r.old ELSE r.err)
        /\ UNCHANGED <<rvars, wvars, wire, sent, nvars>>

\* datagram = ConnectDatagram::from_bytes(&datagram.into_bytes()).
FromBytes ==
    LET r == from_bytes(into_bytes(dgram))
    IN  /\ dgram' = IF r.ok THEN r.buffer ELSE dgram
        /\ clast' = CLast("from_bytes", 0, 0, <<>>, dgram, r.ok,
                          IF r.ok THEN <<>> ELSE r.err)
        /\ UNCHANGED <<rvars, wvars, wire, sent, nvars>>

\* datagram = ConnectDatagram::from_bytes_without_prefix of the datagram's
\* bytes after split_off(SIZE_PREFIX_BYTE_SIZE) (protocol.rs:292-296).
FromBytesWithoutPrefix ==
    LET r == from_bytes_without_prefix(Drop(into_bytes(dgram), SIZE_PREFIX_BYTE_SIZE))
    IN  /\ dgram' = IF r.ok THEN r.buffer ELSE dgram
        /\ clast' = CLast("from_bytes_without_prefix", 0,
                          Len(dgram) - SIZE_PREFIX_BYTE_SIZE, <<>>, dgram, r.ok,
                          IF r.ok THEN <<>> ELSE r.err)
        /\ UNCHANGED <<rvars, wvars, wire, sent, nvars>>

\* The decode poll_next makes (reader.rs:97-107) once the n bytes that a size
\* prefix declared are buffered: data_buf holds those n bytes and goes to
\* from_bytes_without_prefix.  The frame is known by n alone; the datagram
\* built is not kept.
DecodeFrameOfSize(n) ==
    LET c == from_bytes_without_prefix_check(n)
    IN  /\ clast' = CLast("from_bytes_without_prefix", 0, n, <<>>, <<>>, c = "Ok",
                          IF c = "Ok" THEN <<>> ELSE c)
        /\ UNCHANGED <<dgram, rvars, wvars, wire, sent, nvars>>

-----------------------------------------------------------------------------
\* ConnectionReader (reader.rs).

RLast(read, ret) == [read |-> read, ret |-> ret]

\* close_stream as it would be if it left the pending bytes in place.
close_stream_KeepsPending ==
    /\ buffer' = FALSE
    /\ pending_datagram' = None
    /\ pending_read' = pending_read
    /\ rclosed' = TRUE

\* close_stream as it would be if it left the parsed frame size in place.
close_stream_KeepsFrameSize ==
    /\ buffer' = FALSE
    /\ pending_datagram' = pending_datagram
    /\ pending_read' = None
    /\ rclosed' = TRUE

\* close_stream as it would be if it released the buffers without setting the
\* closed flag.
close_stream_LeavesOpen ==
    /\ buffer' = FALSE
    /\ pending_datagram' = None
    /\ pending_read' = None
    /\ rclosed' = rclosed

\* close_stream, reader.rs:81-87.
close_stream ==
    /\ buffer' = FALSE
    /\ pending_datagram' = None
    /\ pending_read' = None
    /\ rclosed' = TRUE

\* poll_next, top of the loop (reader.rs:95-150): a frame size is recorded and
\* at least that many bytes are pending.
CanDecode ==
    /\ pending_datagram # None
    /\ pending_read # None
    /\ Len(pending_read[1]) >= pending_datagram[1]

\* The unreachable!() branch at reader.rs:147-149.
TopUnreachable == pending_datagram # None /\ pending_read = None

\* The loop falls through to the read at reader.rs:152-164 (the values taken at
\* lines 95-96 are put back at lines 144-145).
ReadyToRead == panicked = "" /\ ~CanDecode /\ ~TopUnreachable

\* NextAfterYield as it would be if a remainder shorter than a header were
\* thrown away instead of kept.
NextAfterYield_DropsShortRest(rest) ==
    IF Len(rest) >= DATAGRAM_HEADER_BYTE_SIZE
    THEN [size |-> Some(FromU32BE(Take(rest, SIZE_PREFIX_BYTE_SIZE))),
          read |-> Some(Drop(rest, SIZE_PREFIX_BYTE_SIZE))]
    ELSE [size |-> None, read |-> Some(<<>>)]

\* NextAfterYield as it would be if the next size prefix were never parsed on
\* the way out.
NextAfterYield_NeverParses(rest) == [size |-> None, read |-> Some(rest)]

\* The state left in pending_datagram / pending_read after a datagram was split
\* off and `rest` remains (reader.rs:116-136).
NextAfterYield(rest) ==
    IF Len(rest) >= DATAGRAM_HEADER_BYTE_SIZE
    THEN [size |-> Some(FromU32BE(Take(rest, SIZE_PREFIX_BYTE_SIZE))),
          read |-> Some(Drop(rest, SIZE_PREFIX_BYTE_SIZE))]
    ELSE [size |-> None, read |-> Some(rest)]

\* One loop iteration that ends in the first branch (reader.rs:95-141): the
\* datagram is decoded and returned, or the expect / unreachable!() panics.
PollDecode ==
    /\ panicked = ""
    /\ CanDecode \/ TopUnreachable
    /\ IF TopUnreachable
       THEN /\ panicked' = "unreachable"
            /\ pending_datagram' = None
            /\ UNCHANGED <<pending_read, yielded>>
            /\ rlast' = RLast("", "panic")
       ELSE LET size == pending_datagram[1]
                data_buf == Take(pending_read[1], size)
                rest == Drop(pending_read[1], size)
                res == from_bytes_without_prefix(data_buf)
            IN  IF res.ok
                THEN /\ pending_datagram' = NextAfterYield(rest).size
                     /\ pending_read' = NextAfterYield(rest).read
                     /\ yielded' = Append(yielded, res.buffer)
                     /\ rlast' = RLast("", "Some")
                     /\ UNCHANGED panicked
                ELSE /\ panicked' = "expect"
                     /\ pending_datagram' = None
                     /\ pending_read' = None
                     /\ rlast' = RLast("", "panic")
                     /\ UNCHANGED yielded
    /\ rpc' = "idle"
    /\ UNCHANGED <<buffer, rclosed, consumed, closedAt, wire, sent, wvars, cvars, nvars>>

\* AfterRead as it would be if the bytes pending from earlier reads were not
\* prepended to the chunk.
AfterRead_ForgetsPending(chunk) ==
    LET pending_buf == chunk
    IN  IF pending_datagram = None /\ Len(pending_buf) >= SIZE_PREFIX_BYTE_SIZE
        THEN [size |-> Some(FromU32BE(Take(pending_buf, SIZE_PREFIX_BYTE_SIZE))),
              read |-> Some(Drop(pending_buf, SIZE_PREFIX_BYTE_SIZE))]
        ELSE [size |-> pending_datagram, read |-> Some(pending_buf)]

\* AfterRead as it would be if the size prefix were parsed only once a byte of
\* the frame body had arrived with it.
AfterRead_NeedsBody(chunk) ==
    LET pending_buf == (IF pending_read # None THEN pending_read[1] ELSE <<>>) \o chunk
    IN  IF pending_datagram = None /\ Len(pending_buf) > SIZE_PREFIX_BYTE_SIZE
        THEN [size |-> Some(FromU32BE(Take(pending_buf, SIZE_PREFIX_BYTE_SIZE))),
              read |-> Some(Drop(pending_buf, SIZE_PREFIX_BYTE_SIZE))]
        ELSE [size |-> pending_datagram, read |-> Some(pending_buf)]

\* AfterRead as it would be if no pending buffer were stored when the parsed
\* prefix leaves no byte over.
AfterRead_SizeOnly(chunk) ==
    LET pending_buf == (IF pending_read # None THEN pending_read[1] ELSE <<>>) \o chunk
    IN  IF pending_datagram = None /\ Len(pending_buf) >= SIZE_PREFIX_BYTE_SIZE
        THEN [size |-> Some(FromU32BE(Take(pending_buf, SIZE_PREFIX_BYTE_SIZE))),
              read |-> IF Len(pending_buf) = SIZE_PREFIX_BYTE_SIZE
                       THEN None
                       ELSE Some(Drop(pending_buf, SIZE_PREFIX_BYTE_SIZE))]
        ELSE [size |-> pending_datagram, read |-> Some(pending_buf)]

\* The state left in pending_datagram / pending_read after `chunk` was read
\* (reader.rs:173-210).
AfterRead(chunk) ==
    LET pending_buf == (IF pending_read # None THEN pending_read[1] ELSE <<>>) \o chunk
    IN  IF pending_datagram = None /\ Len(pending_buf) >= SIZE_PREFIX_BYTE_SIZE
        THEN [size |-> Some(FromU32BE(Take(pending_buf, SIZE_PREFIX_BYTE_SIZE))),
              read |-> Some(Drop(pending_buf, SIZE_PREFIX_BYTE_SIZE))]
        ELSE [size |-> pending_datagram, read |-> Some(pending_buf)]

\* poll_read returns Ready(Ok(k)), k > 0 (reader.rs:165-214): the loop goes on.
ReadData(k) ==
    /\ ReadyToRead
    /\ k \in 1..Len(wire)
    /\ k <= BUFFER_SIZE
    /\ LET chunk == Take(wire, k)
       IN  /\ pending_datagram' = AfterRead(chunk).size
           /\ pending_read' = AfterRead(chunk).read
           /\ consumed' = consumed \o chunk
    /\ wire' = Drop(wire, k)
    /\ buffer' = TRUE
    /\ rpc' = "loop"
    /\ rlast' = RLast("data", "")
    /\ UNCHANGED <<rclosed, panicked, yielded, closedAt, sent, wvars, cvars, nvars>>

\* poll_read returns Ready(Ok(0)) (reader.rs:168-171): the stream has ended, so
\* the bytes the peer had not sent yet never arrive.
ReadZero ==
    /\ ReadyToRead
    /\ close_stream
    /\ rpc' = "idle"
    /\ rlast' = RLast("eof", "None")
    /\ closedAt' = IF closedAt < 0 THEN Len(yielded) ELSE closedAt
    /\ wire' = <<>>
    /\ UNCHANGED <<panicked, yielded, consumed, sent, wvars, cvars, nvars>>

\* poll_read returns Ready(Err(_)) (reader.rs:216-223).
ReadErr ==
    /\ ReadyToRead
    /\ close_stream
    /\ rpc' = "idle"
    /\ rlast' = RLast("err", "None")
    /\ closedAt' = IF closedAt < 0 THEN Len(yielded) ELSE closedAt
    /\ UNCHANGED <<panicked, yielded, consumed, wire, sent, wvars, cvars, nvars>>

\* ReadPending as it would be if the frame size and the pending bytes taken at
\* the top of the loop were not put back before the read.
ReadPending_ForgetsTaken ==
    /\ ReadyToRead
    /\ buffer' = TRUE
    /\ rpc' = "idle"
    /\ rlast' = RLast("pending", "Pending")
    /\ pending_datagram' = None
    /\ pending_read' = IF pending_datagram # None THEN None ELSE pending_read
    /\ UNCHANGED <<rclosed, panicked, yielded, consumed, closedAt, wire, sent, wvars,
                   cvars, nvars>>

\* poll_read returns Pending (reader.rs:225-228).
ReadPending ==
    /\ ReadyToRead
    /\ buffer' = TRUE
    /\ rpc' = "idle"
    /\ rlast' = RLast("pending", "Pending")
    /\ UNCHANGED <<pending_read, pending_datagram, rclosed, panicked, yielded,
                   consumed, closedAt, wire, sent, wvars, cvars, nvars>>

\* ConnectionReader::new, reader.rs:47-64.
ReaderInit ==
    /\ buffer = TRUE
    /\ pending_read = None
    /\ pending_datagram = None
    /\ rclosed = FALSE
    /\ rpc = "idle"
    /\ rlast = RLast("", "")
    /\ panicked = ""
    /\ yielded = <<>>
    /\ consumed = <<>>
    /\ closedAt = -1

-----------------------------------------------------------------------------
\* ConnectionWriter (writer.rs).

WLast(op, fl, wr, n, cl, queued, ret) ==
    [op |-> op, flush |-> fl, write |-> wr, n |-> n, close |-> cl, queued |-> queued,
     ret |-> ret]

\* ConnectionWriter::new, writer.rs:40-52.
WriterInit ==
    /\ pending_writes = <<>>
    /\ wclosed = FALSE
    /\ submitted = <<>>
    /\ handed = <<>>
    /\ stream_closed = FALSE
    /\ wlast = WLast("", "", "", 0, "", <<>>, "")

\* What the transport answers to a call: would-block, success or failure.
IoResults == {"Pending", "Ok", "Err"}

\* The bytes start_send queues for a datagram.
Serialize(d) == as_bytes(d)

\* poll_ready as it would be if it also refused while frames are queued.
PollReady_FailsWhenQueued ==
    /\ wlast' = WLast("ready", "", "", 0, "", pending_writes,
                      IF wclosed \/ Len(pending_writes) > 0 THEN "Err" ELSE "Ok")
    /\ UNCHANGED <<pending_writes, wclosed, submitted, handed, stream_closed,
                   rvars, wire, sent, cvars, nvars>>

\* poll_ready, writer.rs:73-81.
PollReady ==
    /\ wlast' = WLast("ready", "", "", 0, "", pending_writes,
                      IF wclosed THEN "Err" ELSE "Ok")
    /\ UNCHANGED <<pending_writes, wclosed, submitted, handed, stream_closed,
                   rvars, wire, sent, cvars, nvars>>

\* Push as it would be if the frame were inserted at the head of the queue.
Push_AtHead(queue, frame) == <<frame>> \o queue

\* The queue after start_send pushed `frame` (writer.rs:91).
Push(queue, frame) == Append(queue, frame)

\* start_send as it would be if it wrote the frame to the transport itself
\* instead of queueing it.
StartSend_WritesThrough(d) ==
    /\ submitted' = Append(submitted, Serialize(d))
    /\ handed' = Append(handed, Serialize(d))
    /\ wire' = wire \o Serialize(d)
    /\ wlast' = WLast("send", "", "Ok", Len(Serialize(d)), "", pending_writes, "Ok")
    /\ UNCHANGED <<pending_writes, wclosed, stream_closed, rvars, sent, cvars, nvars>>

\* start_send, writer.rs:83-98.
StartSend(d) ==
    /\ pending_writes' = Push(pending_writes, Serialize(d))
    /\ submitted' = Append(submitted, Serialize(d))
    /\ wlast' = WLast("send", "", "", 0, "", pending_writes, "Ok")
    /\ UNCHANGED <<wclosed, handed, stream_closed, rvars, wire, sent, cvars, nvars>>

\* The queue left in self.pending_writes once `let pending =
\* self.pending_writes.split_off(0)` has run (writer.rs:110, 152): split_off(at)
\* keeps [0, at) and returns [at, len).
QueueAfterSplitOff(queue) == Take(queue, 0)
SplitOff(queue) == Drop(queue, 0)

\* Flush as it would be if the queue were moved out before the transport's
\* flush is polled.
Flush_SplitsFirst(fl, wr, n) ==
    IF Len(pending_writes) > 0
    THEN LET pending == SplitOff(pending_writes)
         IN  IF fl = "Ok"
             THEN [ret |-> wr,
                   queue |-> QueueAfterSplitOff(pending_writes),
                   handed |-> handed \o pending,
                   wire |-> IF wr = "Ok" THEN wire \o Take(Concat(pending), n)
                                         ELSE wire]
             ELSE [ret |-> fl, queue |-> QueueAfterSplitOff(pending_writes),
                   handed |-> handed, wire |-> wire]
    ELSE [ret |-> "Ok", queue |-> pending_writes, handed |-> handed, wire |-> wire]

\* The flush of poll_flush (writer.rs:101-137), repeated in poll_close
\* (writer.rs:143-179): stream.poll_flush answers fl, and if that is Ok the
\* queue is moved out and stream.poll_write_vectored answers wr, accepting n
\* bytes when it is Ok.  Gives the result and the new queue, handed and wire.
Flush(fl, wr, n) ==
    IF Len(pending_writes) > 0
    THEN IF fl = "Ok"
         THEN LET pending == SplitOff(pending_writes)
              IN  [ret |-> wr,
                   queue |-> QueueAfterSplitOff(pending_writes),
                   handed |-> handed \o pending,
                   wire |-> IF wr = "Ok" THEN wire \o Take(Concat(pending), n)
                                         ELSE wire]
         ELSE [ret |-> fl, queue |-> pending_writes, handed |-> handed, wire |-> wire]
    ELSE [ret |-> "Ok", queue |-> pending_writes, handed |-> handed, wire |-> wire]

\* What the transport can be asked and answer during one poll_flush or
\* poll_close: "" where the call is not made.
FlushAnswers == IF Len(pending_writes) > 0 THEN IoResults ELSE {""}
WriteAnswers(fl) == IF fl = "Ok" /\ ~stream_closed THEN IoResults
                    ELSE IF fl = "Ok" THEN {"Pending", "Err"} ELSE {""}
Accepts(wr) == IF wr = "Ok" THEN 1..Len(Concat(pending_writes)) ELSE {0}
CloseAnswers(fl, wr) == IF Flush(fl, wr, 0).ret = "Ok" THEN IoResults ELSE {""}

\* poll_flush as it would be if a transport error closed the writer.
PollFlush_ClosesOnError(fl, wr, n) ==
    LET f == Flush(fl, wr, n)
    IN  /\ pending_writes' = f.queue
        /\ handed' = f.handed
        /\ wire' = f.wire
        /\ wlast' = WLast("flush", fl, wr, n, "", pending_writes, f.ret)
        /\ wclosed' = (wclosed \/ f.ret = "Err")
        /\ UNCHANGED <<submitted, stream_closed, rvars, sent, cvars, nvars>>

\* poll_flush, writer.rs:100-138.
PollFlush(fl, wr, n) ==
    LET f == Flush(fl, wr, n)
    IN  /\ pending_writes' = f.queue
        /\ handed' = f.handed
        /\ wire' = f.wire
        /\ wlast' = WLast("flush", fl, wr, n, "", pending_writes, f.ret)
        /\ UNCHANGED <<wclosed, submitted, stream_closed, rvars, sent, cvars, nvars>>

\* PollClose as it would be if the two halves shared one closed flag.
PollClose_ClosesReader(fl, wr, n, cl) ==
    LET f == Flush(fl, wr, n)
    IN  /\ wclosed' = TRUE
        /\ rclosed' = TRUE
        /\ pending_writes' = f.queue
        /\ handed' = f.handed
        /\ wire' = f.wire
        /\ stream_closed' = (stream_closed \/ cl = "Ok")
        /\ wlast' = WLast("close", fl, wr, n, cl, pending_writes,
                          IF f.ret = "Ok" THEN cl ELSE f.ret)
        /\ UNCHANGED <<submitted, buffer, pending_read, pending_datagram, rpc, rlast,
                       panicked, yielded, consumed, closedAt, sent, cvars, nvars>>

\* poll_close, writer.rs:140-198: stream.poll_close answers cl.
PollClose(fl, wr, n, cl) ==
    LET f == Flush(fl, wr, n)
    IN  /\ wclosed' = TRUE
        /\ pending_writes' = f.queue
        /\ handed' = f.handed
        /\ wire' = f.wire
        /\ stream_closed' = (stream_closed \/ cl = "Ok")
        /\ wlast' = WLast("close", fl, wr, n, cl, pending_writes,
                          IF f.ret = "Ok" THEN cl ELSE f.ret)
        /\ UNCHANGED <<submitted, rvars, sent, cvars, nvars>>

-----------------------------------------------------------------------------
\* A well-behaved peer: the frames of valid datagrams, cut into arbitrary
\* chunks by the transport, then end of stream.
Tags == {0, 258}
Payload(n) == [i \in 1..n |-> ((i - 1) * 5) % 256]
Payloads == {Payload(n) : n \in 1..MaxPayloadLen}
Datagrams == {with_tag(t, p).buffer : t \in Tags, p \in Payloads}

InitFrag ==
    /\ ReaderInit
    /\ WriterInit
    /\ NetIdle
    /\ CodecIdle
    /\ sent \in SeqsUpTo(Datagrams, MaxDatagrams)
    /\ wire = Concat(sent)

NextFrag ==
    \/ PollDecode
    \/ \E k \in 1..Len(wire) : ReadData(k)
    \/ ReadPending
    \/ (wire = <<>> /\ ~rclosed /\ ReadZero)

SpecFrag == InitFrag /\ [][NextFrag]_vars

-----------------------------------------------------------------------------
\* An arbitrary peer: valid frames mixed with frames whose size prefix declares
\* fewer bytes than a header; the stream may end at any point, and a read may
\* fail at any point and later reads succeed again.
Malformed == {U32BE(n) \o Take(<<0, 1, 0, 9>>, n) : n \in {0, 4}}
Units == Datagrams \cup Malformed

InitReader ==
    /\ ReaderInit
    /\ WriterInit
    /\ NetIdle
    /\ CodecIdle
    /\ sent \in SeqsUpTo(Units, MaxDatagrams)
    /\ wire = Concat(sent)

NextReader ==
    \/ PollDecode
    \/ \E k \in 1..Len(wire) : ReadData(k)
    \/ ReadPending
    \/ ReadZero
    \/ ReadErr

SpecReader == InitReader /\ [][NextReader]_vars

-----------------------------------------------------------------------------
\* The datagrams of examples/tcp-client-blaster (main.rs:56-61): number i is
\* tagged i and carries i as two big-endian bytes.
BlasterDatagram(i) == with_tag(i, U16BE(i)).buffer

Init ==
    /\ ReaderInit
    /\ WriterInit
    /\ NetIdle
    /\ CodecIdle
    /\ sent = <<>>
    /\ wire = <<>>

\* A ConnectionWriter whose owner calls poll_ready, start_send, poll_flush and
\* poll_close in any order, against a transport that answers anything.
NextWriter ==
    \/ PollReady
    \/ (Len(submitted) < MaxSend /\ StartSend(BlasterDatagram(Len(submitted))))
    \/ \E fl \in FlushAnswers : \E wr \in WriteAnswers(fl) : \E n \in Accepts(wr) :
          PollFlush(fl, wr, n)
    \/ \E fl \in FlushAnswers : \E wr \in WriteAnswers(fl) : \E n \in Accepts(wr) :
          \E cl \in CloseAnswers(fl, wr) : PollClose(fl, wr, n, cl)

SpecWriter == Init /\ [][NextWriter]_vars

\* A connection end to end (examples/tcp-client-blaster, main.rs:23-63): one
\* task runs writer.send(d).await for the datagrams 0, 1, 2, ... (start_send,
\* then poll_flush until it is Ready; an Err ends the task), the transport
\* carries the bytes it accepted, in order, to a ConnectionReader that another
\* task polls.
CanSend == wlast.op = "" \/ (wlast.op = "flush" /\ wlast.ret = "Ok")
MustFlush == wlast.op = "send" \/ (wlast.op = "flush" /\ wlast.ret = "Pending")

Next ==
    \/ (CanSend /\ Len(submitted) < MaxSend /\ StartSend(BlasterDatagram(Len(submitted))))
    \/ (MustFlush /\ \E fl \in FlushAnswers : \E wr \in WriteAnswers(fl) :
                        \E n \in Accepts(wr) : PollFlush(fl, wr, n))
    \/ PollDecode
    \/ \E k \in 1..Len(wire) : ReadData(k)
    \/ ReadPending

Spec == Init /\ [][Next]_vars

-----------------------------------------------------------------------------
\* Connection::close, lib.rs:141-151: the reader is dropped, the writer is
\* dropped (`writer.close().await` is commented out), the peer address is
\* returned.  Dropping frees the buffers and the queue; no method of the
\* reader, of the writer or of the transport is called.
ConnClose ==
    /\ wlast.op # "conn_close"
    /\ rpc = "idle"
    /\ buffer' = FALSE
    /\ pending_read' = None
    /\ pending_datagram' = None
    /\ pending_writes' = <<>>
    /\ wlast' = WLast("conn_close", "", "", 0, "", pending_writes, "Ok")
    /\ UNCHANGED <<rclosed, rpc, rlast, panicked, yielded, consumed, closedAt,
                   wclosed, submitted, handed, stream_closed, wire, sent, cvars, nvars>>

\* An unsplit Connection whose peer echoes every byte back: the owner feeds
\* datagrams to the writer, flushes, reads, and closes the connection, which
\* consumes it.
Alive == wlast.op # "conn_close"

NextConn ==
    \/ (Alive /\ Len(submitted) < MaxSend /\ StartSend(BlasterDatagram(Len(submitted))))
    \/ (Alive /\ \E fl \in FlushAnswers : \E wr \in WriteAnswers(fl) :
                    \E n \in Accepts(wr) : PollFlush(fl, wr, n))
    \/ (Alive /\ PollDecode)
    \/ (Alive /\ \E k \in 1..Len(wire) : ReadData(k))
    \/ (Alive /\ ReadPending)
    \/ ConnClose

SpecConn == Init /\ [][NextConn]_vars

\* A Connection after split (lib.rs:121-123): one task owns the writer and
\* runs writer.send(d).await for the datagrams 0, 1, 2, ... and then, or at any
\* point between two sends, writer.close().await; another task owns the reader
\* and polls it.  The two tasks interleave freely; the peer echoes every byte
\* back and ends its stream once the transport was closed.
CanClose == CanSend \/ (wlast.op = "close" /\ wlast.ret = "Pending")

NextSplit ==
    \/ (CanSend /\ Len(submitted) < MaxSend /\ StartSend(BlasterDatagram(Len(submitted))))
    \/ (MustFlush /\ \E fl \in FlushAnswers : \E wr \in WriteAnswers(fl) :
                        \E n \in Accepts(wr) : PollFlush(fl, wr, n))
    \/ (CanClose /\ \E fl \in FlushAnswers : \E wr \in WriteAnswers(fl) :
                       \E n \in Accepts(wr) : \E cl \in CloseAnswers(fl, wr) :
                          PollClose(fl, wr, n, cl))
    \/ PollDecode
    \/ \E k \in 1..Len(wire) : ReadData(k)
    \/ ReadPending
    \/ (stream_closed /\ wire = <<>> /\ ~rclosed /\ ReadZero)

SpecSplit == Init /\ [][NextSplit]_vars

-----------------------------------------------------------------------------
\* The codec alone: a datagram built by with_tag, then any sequence of set_tag,
\* set_data and decodings of its own bytes.
CodecTags == {0, 258, 65535}
CodecPayloads ==
    {Payload(n) : n \in 0..MaxPayloadLen} \cup {[i \in 1..n |-> 200 + i] : n \in 1..MaxPayloadLen}

InitCodec ==
    /\ ReaderInit
    /\ WriterInit
    /\ NetIdle
    /\ sent = <<>>
    /\ wire = <<>>
    /\ \E t \in CodecTags, p \in CodecPayloads \ {<<>>} :
          /\ dgram = with_tag(t, p).buffer
          /\ clast = CLast("with_tag", t, Len(p), p, <<>>, TRUE, <<>>)

\* Payload lengths around the largest one with_tag accepts.
LongLens == {MAX_DATA_SIZE - 1, MAX_DATA_SIZE, MAX_DATA_SIZE + 1}

NextCodec ==
    \/ \E t \in CodecTags, p \in CodecPayloads : WithTag(t, Len(p), p)
    \/ \E t \in CodecTags, n \in LongLens : WithTag(t, n, <<>>)
    \/ \E t \in CodecTags : SetTag(t)
    \/ \E p \in CodecPayloads : SetData(p)
    \/ \E n \in LongLens : SetDataTooLong(n)
    \/ \E n \in LongLens : DecodeFrameOfSize(VERSION_BYTE_SIZE + TAG_BYTE_SIZE + n)
    \/ FromBytes
    \/ FromBytesWithoutPrefix

SpecCodec == InitCodec /\ [][NextCodec]_vars

-----------------------------------------------------------------------------
\* TcpListener and TlsListener (tcp/listener.rs, tls/listener.rs).  One task
\* runs `while let Some(conn) = listener.next().await`: poll_next is called
\* while the task runs; a task that got Pending is parked and runs again only
\* when the waker it registered is woken.  conn_stream registers the waker
\* exactly when its own poll returns Pending.

\* What an accept on the socket, followed by the TLS handshake where there is
\* one, can come to.
Outcomes(kind) ==
    IF kind = "tls" THEN {"Ok", "AcceptErr", "HandshakeErr"} ELSE {"Ok", "AcceptErr"}

\* TcpListener::bind, tcp/listener.rs:49-78, and TlsListener::bind,
\* tls/listener.rs:60-112.
bind(kind) ==
    [kind |-> kind, incoming |-> <<>>, task |-> "running", waker |-> FALSE,
     yielded |-> 0, arrived |-> 0, ret |-> ""]

\* A peer connects and the accept (and handshake) completes with outcome o:
\* the reactor wakes the waker registered with conn_stream, if there is one.
Arrive(o) ==
    /\ listener.kind # ""
    /\ o \in Outcomes(listener.kind)
    /\ listener.arrived < MaxAccepts
    /\ listener' = [listener EXCEPT
                       !.incoming = Append(@, o),
                       !.arrived = @ + 1,
                       !.waker = FALSE,
                       !.task = IF @ = "parked" /\ listener.waker THEN "running" ELSE @]
    /\ UNCHANGED <<rvars, wvars, wire, sent, cvars, conn>>

\* conn_stream.poll_next (tcp/listener.rs:57-63, tls/listener.rs:69-92).
PollConnStream == IF listener.incoming = <<>> THEN "Pending" ELSE Head(listener.incoming)

\* TcpListener::poll_next, tcp/listener.rs:91-116.  An accept error is logged
\* and answered with Poll::Pending (line 107) although conn_stream was Ready,
\* so no waker is registered for that Pending.
TcpPollNext ==
    /\ listener.kind = "tcp"
    /\ listener.task = "running"
    /\ listener' =
          CASE PollConnStream = "Ok" ->
                 [listener EXCEPT !.incoming = Tail(@), !.yielded = @ + 1, !.ret = "Some"]
            [] PollConnStream = "AcceptErr" ->
                 [listener EXCEPT !.incoming = Tail(@), !.task = "parked",
                                  !.ret = "Pending"]
            [] PollConnStream = "Pending" ->
                 [listener EXCEPT !.task = "parked", !.waker = TRUE, !.ret = "Pending"]
    /\ UNCHANGED <<rvars, wvars, wire, sent, cvars, conn>>

\* TlsListener::poll_next, tls/listener.rs:139-162.  A failed handshake is
\* logged and answered with Poll::Pending (line 155) with no waker registered;
\* a failed TCP accept reaches the `_` arm and ends the stream.
TlsPollNext ==
    /\ listener.kind = "tls"
    /\ listener.task = "running"
    /\ listener' =
          CASE PollConnStream = "Ok" ->
                 [listener EXCEPT !.incoming = Tail(@), !.yielded = @ + 1, !.ret = "Some"]
            [] PollConnStream = "HandshakeErr" ->
                 [listener EXCEPT !.incoming = Tail(@), !.task = "parked",
                                  !.ret = "Pending"]
            [] PollConnStream = "Pending" ->
                 [listener EXCEPT !.task = "parked", !.waker = TRUE, !.ret = "Pending"]
            [] PollConnStream = "AcceptErr" ->
                 [listener EXCEPT !.incoming = Tail(@), !.task = "done", !.ret = "None"]
    /\ UNCHANGED <<rvars, wvars, wire, sent, cvars, conn>>

InitListener ==
    /\ ReaderInit
    /\ WriterInit
    /\ CodecIdle
    /\ sent = <<>>
    /\ wire = <<>>
    /\ conn = <<>>
    /\ listener \in {bind("tcp"), bind("tls")}

NextListener ==
    \/ \E o \in {"Ok", "AcceptErr", "HandshakeErr"} : Arrive(o)
    \/ TcpPollNext
    \/ TlsPollNext

SpecListener == InitListener /\ [][NextListener]_vars

-----------------------------------------------------------------------------
\* Connection endpoints (lib.rs:88-128, tcp/client.rs, tls/client.rs).  A
\* socket is known by its two addresses; each half of a Connection holds the
\* socket it reads or writes and the addresses it was constructed with.
LocalAddrs == {"10.0.0.1:5000", "10.0.0.1:5001"}
PeerAddrs == {"10.0.0.2:443", "10.0.0.3:443"}
Sockets == [local : LocalAddrs, peer : PeerAddrs]

\* Connection::new, lib.rs:95-105: both halves get the same two addresses.
new(stream, la, pa) ==
    [reader |-> [stream |-> stream, local_addr |-> la, peer_addr |-> pa],
     writer |-> [stream |-> stream, local_addr |-> la, peer_addr |-> pa]]

\* Connection::local_addr and peer_addr, lib.rs:108-115: the reader's.
local_addr(c) == c.reader.local_addr
peer_addr(c) == c.reader.peer_addr

\* Connection::split and join, lib.rs:121-128.
split(c) == <<c.reader, c.writer>>
join(reader, writer) == [reader |-> reader, writer |-> writer]

\* Connection::tcp_client, tcp/client.rs:16-24, through From<TcpStream>,
\* tcp/client.rs:29-46.
tcp_client(stream) == new(stream, stream.local, stream.peer)

\* Connection::tls_client, tls/client.rs:23-44: line 32 reads
\* `let local_addr = stream.peer_addr()?`; From<TlsConnectionMetadata>,
\* tls/client.rs:49-81, passes both on to Connection::new.
tls_client(stream) ==
    LET la == stream.peer
        pa == stream.peer
    IN  new(stream, la, pa)

TcpClient(stream) ==
    /\ Len(conn) < MaxConns
    /\ conn' = Append(conn, [via |-> "tcp_client", c |-> tcp_client(stream)])
    /\ UNCHANGED <<rvars, wvars, wire, sent, cvars, listener>>

TlsClient(stream) ==
    /\ Len(conn) < MaxConns
    /\ conn' = Append(conn, [via |-> "tls_client", c |-> tls_client(stream)])
    /\ UNCHANGED <<rvars, wvars, wire, sent, cvars, listener>>

\* Connections i and j are split and joined again, each reader with the
\* other's writer (with its own when i = j).
SplitJoin(i, j) ==
    /\ i \in 1..Len(conn) /\ j \in 1..Len(conn)
    /\ conn' = [conn EXCEPT
                   ![i] = [via |-> "join",
                           c |-> join(split(conn[i].c)[1], split(conn[j].c)[2])],
                   ![j] = [via |-> "join",
                           c |-> join(split(conn[j].c)[1], split(conn[i].c)[2])]]
    /\ UNCHANGED <<rvars, wvars, wire, sent, cvars, listener>>

InitEndpoints == Init

NextEndpoints ==
    \/ \E stream \in Sockets : TcpClient(stream)
    \/ \E stream \in Sockets : TlsClient(stream)
    \/ \E i, j \in 1..MaxConns : SplitJoin(i, j)

SpecEndpoints == InitEndpoints /\ [][NextEndpoints]_vars

-----------------------------------------------------------------------------
\* Properties.

OptBytes(o) == IF o = None THEN <<>> ELSE o[1]

\* C1 (SpecFrag): fragmentation invariance.  Whatever chunks the reads return
\* for the frames of the valid datagrams `sent`, the reader yields datagrams
\* with the tag, version and payload of sent[1], sent[2], ... in that order,
\* never more than were sent, and once every byte has been read and nothing
\* is left to decode it has yielded exactly `sent`.
C1_FragmentationInvariance ==
    /\ Len(yielded) <= Len(sent)
    /\ \A i \in 1..Len(yielded) :
          /\ tag(yielded[i]) = tag(sent[i])
          /\ version(yielded[i]) = version(sent[i])
          /\ data(yielded[i]) = data(sent[i])
          /\ as_bytes(yielded[i]) = as_bytes(sent[i])
    /\ (wire = <<>> /\ ReadyToRead) => yielded = sent

C1_Witness ==
    /\ Len(sent) >= 2
    /\ sent[1] # sent[2]
    /\ wire = <<>>
    /\ yielded = sent

\* C2 (SpecWriter): when poll_write_vectored returned would-block during
\* poll_flush, pending_writes holds the same frames in the same order as before
\* the call.
C2_WouldBlockKeepsQueue ==
    (wlast.op = "flush" /\ wlast.write = "Pending") => pending_writes = wlast.queued

\* C3 (SpecWriter): when poll_flush returned Ok, the transport accepted every
\* byte of every frame that was queued when the call started.
C3_FlushOkWroteEverything ==
    (wlast.op = "flush" /\ wlast.ret = "Ok") => wlast.n = Len(Concat(wlast.queued))

\* C4 (SpecWriter): the frames handed to poll_write_vectored, over all calls of
\* poll_flush and poll_close, followed by the frames still queued, are the
\* frames start_send was given, in call order: no frame is handed over ahead
\* of an earlier one, and none twice.
C4_SubmissionOrder == handed \o pending_writes = submitted

C4_Witness ==
    /\ Len(handed) >= 2
    /\ handed[1] # handed[2]
    /\ wlast.op = "flush"
    /\ Len(wlast.queued) = 1

\* C5 (SpecWriter): when poll_write_vectored reported an error during
\* poll_flush, pending_writes still holds every frame it held before the call.
C5_WriteErrorKeepsQueue ==
    (wlast.op = "flush" /\ wlast.write = "Err") => pending_writes = wlast.queued

\* C6 (Spec): the datagrams the reader has yielded are the first datagrams the
\* writer task sent, in sending order.
C6_ReaderYieldsSentInOrder == IsPrefix(yielded, submitted)

\* C7 (SpecReader): while the reader is open, the bytes returned so far by the
\* underlying reads are the frames already yielded, then the size prefix of
\* the next frame if pending_datagram is set, then the pending bytes.
C7_NoByteLostOrDuplicated ==
    (~rclosed /\ panicked = "") =>
        consumed = Concat(yielded)
                   \o (IF pending_datagram # None THEN U32BE(pending_datagram[1]) ELSE <<>>)
                   \o OptBytes(pending_read)

C7_Witness ==
    /\ ~rclosed
    /\ panicked = ""
    /\ Len(yielded) >= 1
    /\ pending_datagram # None
    /\ Len(OptBytes(pending_read)) >= 1
    /\ ~CanDecode

\* C8 (SpecReader): poll_next never panics on the decode result: the decoder
\* is never given a buffer for which it returns InsufficientBytes.
C8_DecodeNeverFails == panicked # "expect"

\* C9 (SpecReader): once poll_next has returned end-of-sequence, no datagram
\* is yielded any more.
C9_NoDatagramAfterEnd == closedAt >= 0 => Len(yielded) = closedAt

\* C10 (SpecReader): a step in which the underlying read reports an error
\* closes the reader, releases the scratch buffer, the pending bytes and the
\* pending frame size, returns end-of-sequence, and adds no item to what the
\* consumer received.
C10_ReadErrorClosesSilently ==
    [][rlast'.read = "err" =>
          /\ rclosed'
          /\ ~buffer'
          /\ pending_read' = None
          /\ pending_datagram' = None
          /\ rlast'.ret = "None"
          /\ rpc' = "idle"
          /\ yielded' = yielded]_vars

C10_Witness ==
    /\ rlast.read = "err"
    /\ rclosed
    /\ Len(yielded) >= 1
    /\ Concat(yielded) # consumed

\* C11 (SpecWriter): poll_close writes every frame that is pending when it is
\* called before it closes the transport: the transport's poll_close is
\* invoked only once every queued byte was accepted, and when the flush or the
\* write inside poll_close would block the queue is kept for the next poll.
C11_CloseFlushesPending ==
    wlast.op = "close" =>
        /\ wlast.close # "" => wlast.n = Len(Concat(wlast.queued))
        /\ (wlast.flush = "Pending" \/ wlast.write = "Pending") =>
               pending_writes = wlast.queued

\* C12 (SpecWriter): when the final flush of poll_close fails with a transport
\* error, the transport's poll_close is invoked all the same.
C12_CloseAfterFailedFlush ==
    (wlast.op = "close" /\ (wlast.flush = "Err" \/ wlast.write = "Err")) =>
        wlast.close # ""

\* C13 (SpecWriter): once the writer is closed it stays closed, and no later
\* call submits a frame or appends one to pending_writes.
C13_ClosedRejectsSubmits ==
    [][wclosed => /\ wclosed'
                  /\ submitted' = submitted
                  /\ Len(pending_writes') <= Len(pending_writes)]_vars

\* C14 (SpecWriter): poll_ready returns the connection-closed error exactly
\* when closed is true and Ok exactly when it is false, whatever is queued.
C14_ReadyFailsIffClosed ==
    wlast.op = "ready" =>
        /\ wlast.ret \in {"Ok", "Err"}
        /\ wlast.ret = "Err" <=> wclosed

C14_Witness ==
    /\ wlast.op = "ready"
    /\ wlast.ret = "Ok"
    /\ ~wclosed
    /\ Len(pending_writes) >= 2

\* C15 (SpecWriter): a poll_flush in which the transport's flush or its
\* vectored write fails returns the error and leaves closed as it was.
C15_FlushErrorLeavesOpen ==
    [][(wlast'.op = "flush" /\ (wlast'.flush = "Err" \/ wlast'.write = "Err")) =>
          /\ wlast'.ret = "Err"
          /\ wclosed' = wclosed]_vars

C15_Witness ==
    /\ wlast.op = "flush"
    /\ wlast.write = "Err"
    /\ wlast.ret = "Err"
    /\ ~wclosed

\* C16 (SpecConn): when Connection::close has returned, the reader's buffers
\* are released and every frame that was pending has been handed to the
\* transport.
C16_ConnectionCloseFlushes ==
    wlast.op = "conn_close" =>
        /\ ~buffer
        /\ pending_read = None
        /\ pending_datagram = None
        /\ handed = submitted

\* C17 (SpecWriter): a poll_close made right after a poll_close that completed
\* returns no error, writes no byte and leaves closed true and the queue empty.
C17_SecondCloseIsQuiet ==
    [][(wlast.op = "close" /\ wlast.ret = "Ok" /\ wlast'.op = "close") =>
          /\ wlast'.ret # "Err"
          /\ wire' = wire
          /\ wclosed'
          /\ pending_writes' = <<>>]_vars

\* C18 (SpecCodec): decoding the bytes of with_tag(t, p) with from_bytes, or
\* those bytes without their first 4 with from_bytes_without_prefix, succeeds
\* and gives a datagram with version 1, tag t, payload p and the same bytes.
C18_RoundTrip ==
    \A t \in CodecTags, p \in CodecPayloads \ {<<>>} :
        (/\ clast.op \in {"from_bytes", "from_bytes_without_prefix"}
         /\ clast.before = into_bytes(with_tag(t, p).buffer)) =>
            /\ clast.ok
            /\ version(dgram) = VERSION
            /\ tag(dgram) = t
            /\ data(dgram) = p
            /\ into_bytes(dgram) = clast.before

C18_Witness ==
    /\ clast.op = "from_bytes_without_prefix"
    /\ clast.before = with_tag(65535, Payload(2)).buffer
    /\ dgram = clast.before

\* C19 (SpecCodec): in every datagram reached from with_tag by set_tag and
\* set_data, the big-endian u32 in bytes [0..4) is 4 + data().len() and
\* serialized_size() is 8 + data().len().
C19_SizePrefixInvariant ==
    /\ FromU32BE(Take(dgram, SIZE_PREFIX_BYTE_SIZE)) = 4 + Len(data(dgram))
    /\ serialized_size(dgram) = 8 + Len(data(dgram))

\* C20 (SpecCodec): after a successful set_data(new), data() is new and
\* version() and tag() are what they were before the call.
C20_SetDataKeepsHeader ==
    (clast.op = "set_data" /\ clast.ok) =>
        /\ data(dgram) = clast.data
        /\ version(dgram) = version(clast.before)
        /\ tag(dgram) = tag(clast.before)

\* C21 (SpecCodec): a successful set_data(new) returns the payload the datagram
\* held before the call, all of its bytes in order.
C21_SetDataReturnsOld ==
    (clast.op = "set_data" /\ clast.ok) => clast.out = data(clast.before)

\* C22 (SpecCodec): with_tag fails with EmptyMessage exactly when the payload
\* length is 0, fails with TooLargeMessage exactly when the length is above
\* MAX_DATA_SIZE, and succeeds for every length from 1 to MAX_DATA_SIZE.
C22_ConstructionBounds ==
    clast.op = "with_tag" =>
        /\ clast.ok <=> (1 <= clast.len /\ clast.len <= MAX_DATA_SIZE)
        /\ ~clast.ok =>
              /\ clast.out \in {"EmptyMessage", "TooLargeMessage"}
              /\ clast.out = "EmptyMessage" <=> clast.len = 0
              /\ clast.out = "TooLargeMessage" <=> clast.len > MAX_DATA_SIZE

C22_Witness ==
    /\ clast.op = "with_tag"
    /\ clast.len = MAX_DATA_SIZE
    /\ clast.ok
    /\ clast.tag = 65535

\* C23 (SpecCodec): the bytes of a datagram with_tag(tag, payload) built are,
\* in order, 4 + Len(payload) as a big-endian u32, the version 1 and the tag as
\* big-endian u16, then the payload; 8 + Len(payload) bytes in all.
C23_WireLayout ==
    (clast.op = "with_tag" /\ clast.ok /\ clast.len = Len(clast.data)) =>
        /\ \A i \in 1..Len(dgram) : dgram[i] \in 0..255
        /\ Len(as_bytes(dgram)) = 8 + Len(clast.data)
        /\ FromU32BE(SubSeq(as_bytes(dgram), 1, 4)) = 4 + Len(clast.data)
        /\ FromU16BE(SubSeq(as_bytes(dgram), 5, 6)) = 1
        /\ FromU16BE(SubSeq(as_bytes(dgram), 7, 8)) = clast.tag
        /\ SubSeq(as_bytes(dgram), 9, Len(dgram)) = clast.data

C23_Witness ==
    /\ clast.op = "with_tag"
    /\ clast.tag = 258
    /\ clast.data = <<201, 202>>
    /\ clast.before = <<>>
    /\ dgram = <<0, 0, 0, 6, 0, 1, 1, 2, 201, 202>>

\* The bytes the reader holds: the size prefix it has parsed, if any, and the
\* pending bytes; and the number of complete frames at their head.
Buffered ==
    (IF pending_datagram # None THEN U32BE(pending_datagram[1]) ELSE <<>>)
    \o OptBytes(pending_read)

RECURSIVE FramesIn(_)
FramesIn(b) ==
    IF Len(b) >= SIZE_PREFIX_BYTE_SIZE
       /\ Len(b) >= SIZE_PREFIX_BYTE_SIZE + FromU32BE(Take(b, SIZE_PREFIX_BYTE_SIZE))
    THEN 1 + FramesIn(Drop(b, SIZE_PREFIX_BYTE_SIZE + FromU32BE(Take(b, SIZE_PREFIX_BYTE_SIZE))))
    ELSE 0

\* C24 (SpecFrag): while the reader holds k >= 1 complete frames, its next step
\* returns the first of them as a datagram without reading from the transport
\* and leaves k - 1 complete frames: the next k calls yield them in order.
C24_BacklogDrainsWithoutReads ==
    [][(panicked = "" /\ FramesIn(Buffered) >= 1) =>
          /\ rlast'.read = ""
          /\ rlast'.ret = "Some"
          /\ consumed' = consumed
          /\ wire' = wire
          /\ yielded' = Append(yielded,
                 Take(Buffered, SIZE_PREFIX_BYTE_SIZE
                                + FromU32BE(Take(Buffered, SIZE_PREFIX_BYTE_SIZE))))
          /\ FramesIn(Buffered') = FramesIn(Buffered) - 1]_vars

C24_Witness ==
    /\ Len(sent) = 2
    /\ wire = <<>>
    /\ rlast.ret = "Some"
    /\ yielded = <<sent[1]>>
    /\ FramesIn(Buffered) = 1
    /\ Buffered = sent[2]

\* C25 (SpecReader): a step in which the underlying read returns zero bytes
\* closes the reader, returns end-of-sequence and leaves no pending bytes and
\* no pending frame size, whatever was buffered; and from a closed reader that
\* holds nothing, on a stream that has ended, no datagram is produced.
C25_EndOfStreamDiscardsPartial ==
    [][/\ rlast'.read = "eof" =>
             /\ rclosed'
             /\ rlast'.ret = "None"
             /\ rpc' = "idle"
             /\ pending_read' = None
             /\ pending_datagram' = None
             /\ yielded' = yielded
       /\ (rclosed /\ wire = <<>> /\ pending_read = None /\ pending_datagram = None) =>
             /\ yielded' = yielded
             /\ pending_read' = None
             /\ pending_datagram' = None]_vars

C25_Witness ==
    /\ rlast.read = "eof"
    /\ rclosed
    /\ pending_read = None
    /\ pending_datagram = None
    /\ Len(yielded) >= 1
    /\ Len(consumed) > Len(Concat(yielded)) + SIZE_PREFIX_BYTE_SIZE

\* C26 (SpecFrag): when poll_next has just yielded a datagram, either the next
\* frame's size prefix is parsed (pending_datagram is set, its 4 bytes are no
\* longer in pending_read) or fewer than 4 bytes remain.
C26_EagerParseThreshold ==
    rlast.ret = "Some" =>
        \/ pending_datagram # None
        \/ Len(OptBytes(pending_read)) < SIZE_PREFIX_BYTE_SIZE

\* C27 (SpecReader), as stated: poll_next returns Pending exactly when the
\* underlying read returned would-block, and then pending_read,
\* pending_datagram and closed are what they were before the call (rpc is
\* "idle" exactly in the states in which no call is underway, so a step that
\* starts elsewhere starts from values the call has already changed).
C27_PendingKeepsCallState ==
    [][/\ rlast'.ret = "Pending" <=> rlast'.read = "pending"
       /\ rlast'.ret = "Pending" =>
             /\ rpc = "idle"
             /\ pending_read' = pending_read
             /\ pending_datagram' = pending_datagram
             /\ rclosed' = rclosed]_vars

\* C27 (SpecReader), amended: poll_next returns Pending exactly when the
\* underlying read returned would-block, and then pending_read,
\* pending_datagram and closed are what they were before that read: the bytes
\* that earlier reads of the same call returned stay buffered, and nothing is
\* yielded or consumed.
C27_PendingKeepsReadState ==
    [][/\ rlast'.ret = "Pending" <=> rlast'.read = "pending"
       /\ rlast'.ret = "Pending" =>
             /\ rpc' = "idle"
             /\ pending_read' = pending_read
             /\ pending_datagram' = pending_datagram
             /\ rclosed' = rclosed
             /\ yielded' = yielded
             /\ consumed' = consumed
             /\ wire' = wire]_vars

C27_Witness ==
    /\ rlast.ret = "Pending"
    /\ rlast.read = "pending"
    /\ pending_datagram # None
    /\ Len(OptBytes(pending_read)) >= 1
    /\ Len(yielded) >= 1
    /\ ~rclosed

\* A byte stream is well framed when it is a concatenation of frames that were
\* submitted, followed by at most a prefix of one further such frame.
RECURSIVE WellFramed(_)
WellFramed(b) ==
    \/ b = <<>>
    \/ \E i \in 1..Len(submitted) :
          \/ IsPrefix(b, submitted[i])
          \/ IsPrefix(submitted[i], b) /\ WellFramed(Drop(b, Len(submitted[i])))

\* C28 (SpecWriter): the bytes the transport has taken from the writer are
\* always complete frames followed by at most a prefix of one further frame.
C28_WrittenBytesWellFramed == WellFramed(wire)

\* C29 (SpecWriter): a start_send appends the one frame of its datagram at the
\* tail of pending_writes, leaves the frames already queued and closed as they
\* were, and calls nothing on the transport.
C29_SubmitOnlyEnqueues ==
    [][wlast'.op = "send" =>
          /\ wlast'.ret = "Ok"
          /\ pending_writes' = pending_writes
                               \o <<as_bytes(BlasterDatagram(Len(submitted)))>>
          /\ wclosed' = wclosed
          /\ wlast'.flush = "" /\ wlast'.write = "" /\ wlast'.close = ""
          /\ handed' = handed
          /\ wire' = wire
          /\ stream_closed' = stream_closed]_vars

C29_Witness ==
    /\ wlast.op = "send"
    /\ Len(wlast.queued) = 1
    /\ pending_writes = <<BlasterDatagram(0), BlasterDatagram(1)>>
    /\ handed = <<>>

\* C30 (SpecWriter): in poll_flush nothing is handed to poll_write_vectored
\* unless the transport's poll_flush returned Ok first; when it returns
\* would-block or an error that is the result and the queue is untouched; and
\* on an empty queue poll_flush returns Ok without calling the transport.
C30_FlushBeforeWrite ==
    [][wlast'.op = "flush" =>
          /\ (handed' # handed \/ wire' # wire \/ wlast'.write # "") =>
                 wlast'.flush = "Ok"
          /\ wlast'.flush \in {"Pending", "Err"} =>
                 /\ wlast'.ret = wlast'.flush
                 /\ pending_writes' = pending_writes
                 /\ handed' = handed
                 /\ wire' = wire
          /\ pending_writes = <<>> =>
                 /\ wlast'.ret = "Ok"
                 /\ wlast'.flush = "" /\ wlast'.write = ""
                 /\ pending_writes' = <<>>
                 /\ handed' = handed
                 /\ wire' = wire]_vars

C30_Witness ==
    /\ wlast.op = "flush"
    /\ wlast.flush = "Pending"
    /\ wlast.ret = "Pending"
    /\ Len(pending_writes) = 2
    /\ handed = <<>>

\* C35 (SpecCodec): every datagram the reader's decode yields has a payload of
\* at most MAX_DATA_SIZE bytes: a frame of n bytes after the size prefix is
\* decoded only when n minus the version and tag fields is within the limit.
C35_DecodeEnforcesLimit ==
    (clast.op = "from_bytes_without_prefix" /\ clast.ok) =>
        clast.len - (VERSION_BYTE_SIZE + TAG_BYTE_SIZE) <= MAX_DATA_SIZE

\* C36 (SpecCodec): set_data is refused with EmptyMessage for an empty payload
\* and with TooLargeMessage for one longer than MAX_DATA_SIZE, and a refused
\* set_data leaves the size prefix, version, tag and payload as they were.
C36_RejectedSetDataChangesNothing ==
    clast.op = "set_data" =>
        /\ clast.len = 0 => ~clast.ok
        /\ clast.len > MAX_DATA_SIZE => ~clast.ok
        /\ ~clast.ok =>
              /\ clast.len = 0 => clast.out = "EmptyMessage"
              /\ clast.len > MAX_DATA_SIZE => clast.out = "TooLargeMessage"
              /\ Take(dgram, SIZE_PREFIX_BYTE_SIZE) =
                     Take(clast.before, SIZE_PREFIX_BYTE_SIZE)
              /\ version(dgram) = version(clast.before)
              /\ tag(dgram) = tag(clast.before)
              /\ data(dgram) = data(clast.before)

C36_Witness ==
    /\ clast.op = "set_data"
    /\ ~clast.ok
    /\ clast.len = MAX_DATA_SIZE + 1
    /\ clast.out = "TooLargeMessage"
    /\ dgram = U32BE(5) \o U16BE(VERSION) \o U16BE(258) \o <<0>>

C32_SizeImpliesPendingBuffer ==
    /\ pending_datagram # None => pending_read # None
    /\ panicked # "unreachable"

C32_Witness ==
    /\ rclosed
    /\ closedAt >= 0
    /\ rlast.read = "data"
    /\ pending_datagram # None
    /\ pending_read = Some(<<>>)

\* C33 (SpecReader): close_stream releases everything and is idempotent: after
\* a step that calls it (a zero-byte read or a read error) the scratch buffer,
\* pending_read and pending_datagram are absent and closed is true, and when
\* the reader was already in that state the call leaves all four as they were.
C33_CloseIdempotent ==
    [][rlast'.read \in {"eof", "err"} =>
          /\ <<buffer', pending_read', pending_datagram', rclosed'>> =
                 <<FALSE, None, None, TRUE>>
          /\ (rclosed /\ ~buffer /\ pending_read = None /\ pending_datagram = None) =>
                 <<buffer', pending_read', pending_datagram', rclosed'>> =
                    <<buffer, pending_read, pending_datagram, rclosed>>]_vars

\* The stream ended (which empties the wire before all of it was consumed) and
\* a later read failed: close_stream has run twice.
C33_Witness ==
    /\ rlast.read = "err"
    /\ wire = <<>>
    /\ Len(consumed) < Len(Concat(sent))
    /\ closedAt >= 0
    /\ <<buffer, pending_read, pending_datagram, rclosed>> = <<FALSE, None, None, TRUE>>

C38_FailedAcceptKeepsListening ==
    /\ listener.task = "parked" => listener.waker
    /\ (listener.kind = "tcp" /\ listener.arrived > 0) => listener.task # "done"

\* C39 (SpecEndpoints): every Connection reports its own endpoints: one made
\* by tcp_client or tls_client reports its socket's local address as
\* local_addr() and its socket's peer address as peer_addr(), and one made by
\* join reports the addresses of its reader half.
C39_ReportsOwnEndpoints ==
    \A i \in 1..Len(conn) :
        /\ conn[i].via \in {"tcp_client", "tls_client"} =>
              /\ local_addr(conn[i].c) = conn[i].c.reader.stream.local
              /\ peer_addr(conn[i].c) = conn[i].c.reader.stream.peer
        /\ conn[i].via = "join" =>
              /\ local_addr(conn[i].c) = conn[i].c.reader.local_addr
              /\ peer_addr(conn[i].c) = conn[i].c.reader.peer_addr

====
